---- MODULE Spec2Model ----
(***************************************************************************)
(* The outbound proxy subsystem of the SEO Copilot backend gateway:        *)
(*   routers/proxy.py      proxy_request     (generic allowlisted proxy)   *)
(*   routers/llm.py        proxy_openai, stream_upstream                   *)
(*   routers/dataforseo.py proxy_dataforseo                                *)
(*   auth.py               get_current_user  (bearer-token dependency)     *)
(*                                                                         *)
(* One request is in flight at a time: the handlers share no mutable state *)
(* (only the process environment and ALLOWED_DOMAINS, both read-only), so  *)
(* concurrent requests cannot influence each other.  A handler is cut into *)
(* steps at its await points: everything up to the outbound call is one    *)
(* step, the upstream's answer and the return path the next.               *)
(*                                                                         *)
(* Strings the code inspects character by character (URLs, model ids) are  *)
(* sequences of one-character strings.  An Optional value is None (<<>>)   *)
(* or Some(v) (<<v>>).                                                     *)
(***************************************************************************)
EXTENDS Integers, Sequences, FiniteSets, TLC

VARIABLES
    env,        \* process environment: name -> None | Some(string)
    endpoint,   \* which route the request in flight arrived on
    req,        \* the request in flight
    pc,         \* position of the request in flight
    user,       \* result of the get_current_user dependency
    calls,      \* outbound HTTP requests issued for the request in flight
    up,         \* what the upstream answers to the outbound request
    resp,       \* the response returned to the caller
    sent        \* body chunks written to the caller's stream

vars == <<env, endpoint, req, pc, user, calls, up, resp, sent>>

\* ------------------------------------------------------------ bounds
MaxHeaders == 2     \* inbound headers per generic-proxy request
MaxChunks  == 2     \* chunks in an upstream stream body
MaxUnset   == 1     \* environment entries that deviate from a full configuration

\* ------------------------------------------------------------ values
None == <<>>
Some(v) == <<v>>
Val(o) == o[1]

\* Python truthiness of an Optional[str] held as None | Some(string)
Truthy(o) == o # None /\ Val(o) # ""

Concat(parts) == parts[1] \o parts[2] \o parts[3] \o parts[4] \o parts[5]

\* s.endswith(suffix)
EndsWith(s, suffix) ==
    /\ Len(suffix) <= Len(s)
    /\ SubSeq(s, Len(s) - Len(suffix) + 1, Len(s)) = suffix

\* sub in s   (substring containment)
Contains(s, sub) ==
    \E i \in 0..(Len(s) - Len(sub)) : SubSeq(s, i + 1, i + Len(sub)) = sub

\* s.find(c) as a 1-based index, 0 when absent
Find(s, cs) ==
    IF \E i \in 1..Len(s) : s[i] \in cs
    THEN CHOOSE i \in 1..Len(s) : s[i] \in cs /\ \A j \in 1..(i - 1) : s[j] \notin cs
    ELSE 0

Range(f) == {f[x] : x \in DOMAIN f}

\* ------------------------------------------------------------ proxy.py
ALLOWED_DOMAINS ==
    << <<"a", "p", "i", ".", "d", "e", "e", "p", "l", ".", "c", "o", "m">>,
       <<"a", "p", "i", "-", "f", "r", "e", "e", ".", "d", "e", "e", "p", "l", ".", "c", "o", "m">>,
       <<"t", "r", "a", "n", "s", "l", "a", "t", "i", "o", "n", ".", "g", "o", "o", "g", "l", "e", "a", "p", "i", "s", ".", "c", "o", "m">>,
       <<"a", "p", "i", ".", "c", "o", "g", "n", "i", "t", "i", "v", "e", ".", "m", "i", "c", "r", "o", "s", "o", "f", "t", "t", "r", "a", "n", "s", "l", "a", "t", "o", "r", ".", "c", "o", "m">>,
       <<"a", "p", "i", ".", "r", "e", "p", "l", "i", "c", "a", "t", "e", ".", "c", "o", "m">>,
       <<"a", "p", "i", ".", "o", "p", "e", "n", "a", "i", ".", "c", "o", "m">>,
       <<"a", "p", "i", ".", "a", "n", "t", "h", "r", "o", "p", "i", "c", ".", "c", "o", "m">>,
       <<"a", "p", "i", ".", "s", "i", "l", "i", "c", "o", "n", "f", "l", "o", "w", ".", "c", "n">>,
       <<"i", "m", "a", "g", "e", ".", "p", "o", "l", "l", "i", "n", "a", "t", "i", "o", "n", "s", ".", "a", "i">>,
       <<"a", "p", "i", "-", "i", "n", "f", "e", "r", "e", "n", "c", "e", ".", "h", "u", "g", "g", "i", "n", "g", "f", "a", "c", "e", ".", "c", "o">>,
       <<"a", "p", "i", ".", "c", "l", "o", "u", "d", "f", "l", "a", "r", "e", ".", "c", "o", "m">>,
       <<"o", "p", "e", "n", "r", "o", "u", "t", "e", "r", ".", "a", "i">>,
       <<"a", "p", "i", ".", "s", "t", "u", "d", "i", "o", ".", "n", "e", "b", "i", "u", "s", ".", "a", "i">>,
       <<"o", "p", "e", "n", ".", "b", "i", "g", "m", "o", "d", "e", "l", ".", "c", "n">>,
       <<"a", "r", "k", ".", "c", "n", "-", "b", "e", "i", "j", "i", "n", "g", ".", "v", "o", "l", "c", "e", "s", ".", "c", "o", "m">>,
       <<"p", "i", "x", "a", "b", "a", "y", ".", "c", "o", "m">>,
       <<"a", "p", "i", ".", "u", "n", "s", "p", "l", "a", "s", "h", ".", "c", "o", "m">>,
       <<"l", "i", "b", "r", "e", "t", "r", "a", "n", "s", "l", "a", "t", "e", ".", "c", "o", "m">>,
       <<"m", "o", "d", "e", "l", "s", "c", "o", "p", "e", ".", "c", "n">>,
       <<"a", "p", "i", ".", "s", "t", "a", "b", "i", "l", "i", "t", "y", ".", "a", "i">> >>

Letters ==
    {"a", "b", "c", "d", "e", "f", "g", "h", "i", "j", "k", "l", "m",
     "n", "o", "p", "q", "r", "s", "t", "u", "v", "w", "x", "y", "z",
     "A", "B", "C", "D", "E", "F", "G", "H", "I", "J", "K", "L", "M",
     "N", "O", "P", "Q", "R", "S", "T", "U", "V", "W", "X", "Y", "Z"}
Digits == {"0", "1", "2", "3", "4", "5", "6", "7", "8", "9"}

\* urllib.parse.urlsplit, scheme step: url[:i] is a scheme when it starts
\* with a letter and holds only letters, digits, "+", "-", "."; the scheme
\* and its ":" are cut off.
AfterScheme(url) ==
    LET i == Find(url, {":"}) IN
    IF /\ i > 1
       /\ url[1] \in Letters
       /\ \A j \in 1..(i - 1) : url[j] \in Letters \cup Digits \cup {"+", "-", "."}
    THEN SubSeq(url, i + 1, Len(url))
    ELSE url

\* urlparse(url).netloc: what follows a leading "//" up to the first of
\* "/", "?", "#"; empty when the rest does not start with "//".
netloc(url) ==
    LET rest == AfterScheme(url) IN
    IF Len(rest) >= 2 /\ rest[1] = "/" /\ rest[2] = "/"
    THEN LET tail == SubSeq(rest, 3, Len(rest))
             d == Find(tail, {"/", "?", "#"})
         IN  IF d = 0 THEN tail ELSE SubSeq(tail, 1, d - 1)
    ELSE <<>>

\* proxy.py lines 59-66: the membership test, then the loop over the list
is_allowed(domain) ==
    \/ domain \in Range(ALLOWED_DOMAINS)
    \/ \E k \in DOMAIN ALLOWED_DOMAINS :
          \/ domain = ALLOWED_DOMAINS[k]
          \/ EndsWith(domain, <<".">> \o ALLOWED_DOMAINS[k])

DefaultUserAgent == "SEO-Copilot-Backend/1.0"

\* a dict with one key removed / one key set
DictDel(d, k) == [n \in (DOMAIN d) \ {k} |-> d[n]]
DictSet(d, k, v) == [n \in (DOMAIN d) \cup {k} |-> IF n = k THEN v ELSE d[n]]

\* proxy.py lines 74-82
PrepareHeaders(hdrs) ==
    LET h0 == IF hdrs # None /\ DOMAIN Val(hdrs) # {} THEN Val(hdrs) ELSE <<>>
        h1 == IF "host" \in DOMAIN h0 THEN DictDel(h0, "host") ELSE h0
        h2 == IF "Host" \in DOMAIN h1 THEN DictDel(h1, "Host") ELSE h1
    IN  IF "User-Agent" \notin DOMAIN h2 /\ "user-agent" \notin DOMAIN h2
        THEN DictSet(h2, "User-Agent", DefaultUserAgent)
        ELSE h2


\* ------------------------------------------------------------ inputs
\* Authorization: Bearer <token> of the inbound request (None: no header)
Tokens == {None, Some("good"), Some("bad")}

\* URLs are scheme \o userinfo \o host \o port \o tail
UrlSchemes == { <<"h", "t", "t", "p", "s", ":", "/", "/">>, <<>> }
UrlUserinfos == { <<>>, <<"u", "s", "e", "r", "@">> }
UrlHosts ==
    { <<"a", "p", "i", ".", "d", "e", "e", "p", "l", ".", "c", "o", "m">>,
      <<"s", "u", "b", ".", "a", "p", "i", ".", "d", "e", "e", "p", "l", ".", "c", "o", "m">>,
      <<"A", "P", "I", ".", "D", "E", "E", "P", "L", ".", "C", "O", "M">>,
      <<"x", "a", "p", "i", ".", "d", "e", "e", "p", "l", ".", "c", "o", "m">>,
      <<"a", "p", "i", ".", "d", "e", "e", "p", "l", ".", "c", "o", "m", ".", "e", "v", "i", "l", ".", "c", "o", "m">>,
      <<"e", "v", "i", "l", ".", "c", "o", "m">>,
      <<"m", "o", "d", "e", "l", "s", "c", "o", "p", "e", ".", "c", "n">>,
      <<>> }
UrlPorts == { <<>>, <<":", "4", "4", "3">> }
UrlTails == { <<"/", "v", "2">>, <<"?", "q">> }
Urls ==
    { Concat(<<s, u, h, p, t>>) :
        s \in UrlSchemes, u \in UrlUserinfos, h \in UrlHosts, p \in UrlPorts, t \in UrlTails }

HeaderNames ==
    {"host", "Host", "HOST", "User-Agent", "user-agent", "USER-AGENT", "Accept"}
HeaderDicts ==
    { [n \in S |-> "v"] : S \in {T \in SUBSET HeaderNames : Cardinality(T) <= MaxHeaders} }

\* JSON values a request body can hold (Optional[Any])
JStr(s) == [t |-> "str", v |-> s]
JObj(d) == [t |-> "obj", v |-> d]
Bodies == {None, Some(JObj(<<>>)), Some(JStr(<<"h", "i">>))}

\* Python truthiness of an Optional[Any] body
BodyTruthy(b) == b # None /\ Val(b).v # <<>>

Payloads == {None, Some(<<"a", "G", "k", "=">>)}
Encodings == {None, Some("base64")}

NoReq ==
    [token |-> None, url |-> <<>>, method |-> "", headers |-> None, body |-> None,
     payload |-> None, encoding |-> None, model |-> None, stream |-> FALSE,
     path |-> <<>>]

ProxyRequests ==
    { [NoReq EXCEPT !.token = tk, !.url = u, !.method = "POST", !.headers = h,
                    !.body = b, !.payload = p, !.encoding = e] :
        tk \in Tokens, u \in Urls, h \in {None} \cup {Some(d) : d \in HeaderDicts},
        b \in Bodies, p \in Payloads, e \in Encodings }

\* ------------------------------------------------------------ upstream
CT_JSON == <<"a", "p", "p", "l", "i", "c", "a", "t", "i", "o", "n", "/", "j", "s", "o", "n">>
CT_JSON_UTF8 == CT_JSON \o <<";", " ", "c", "h", "a", "r", "s", "e", "t", "=", "u", "t", "f", "-", "8">>
CT_PNG == <<"i", "m", "a", "g", "e", "/", "p", "n", "g">>
CT_OCTET ==
    <<"a", "p", "p", "l", "i", "c", "a", "t", "i", "o", "n", "/", "o", "c", "t", "e", "t", "-", "s", "t", "r", "e", "a", "m">>

Statuses == {200, 404, 500}

NoUp ==
    [kind |-> "none", status |-> 0, ctype |-> None, json |-> FALSE,
     chunks |-> <<>>, end |-> "eof", pos |-> 0]

\* A buffered answer: a transport failure, or a response with a status, a
\* Content-Type header (or none) and a body that parses as JSON or does not.
Answers ==
    { [NoUp EXCEPT !.kind = "error"] }
    \cup { [NoUp EXCEPT !.kind = "response", !.status = s, !.ctype = c, !.json = j] :
             s \in Statuses,
             c \in {None, Some(CT_JSON), Some(CT_JSON_UTF8), Some(CT_PNG)},
             j \in BOOLEAN }

\* ------------------------------------------------------------ responses
NoResp == [status |-> 0, media_type |-> None, body |-> "none", detail |-> <<>>]

\* raise HTTPException(status_code, detail) reaching the framework
HTTPException(status_code, detail) ==
    [NoResp EXCEPT !.status = status_code, !.body = "error", !.detail = detail]

\* Response(content=resp.content, status_code=..., media_type=...)
Response(status_code, media_type) ==
    [NoResp EXCEPT !.status = status_code, !.body = "upstream content",
                   !.media_type = Some(media_type)]

NoCall == [method |-> "", url |-> <<>>, headers |-> <<>>, json |-> None, auth |-> None]

\* ------------------------------------------------------------ proxy_request
\* A request arrives on POST /api/proxy.  The route declares no
\* dependency, so the handler runs next whatever the token is.
ProxyArrive ==
    /\ pc = "idle"
    /\ \E r \in ProxyRequests : req' = r
    /\ endpoint' = "proxy"
    /\ pc' = "handler"
    /\ UNCHANGED <<env, user, calls, up, resp, sent>>

\* proxy_request with the allowlist verdict computed but never acted on:
\* the outbound request is issued for every domain
proxy_request_without_deny ==
    /\ pc = "handler"
    /\ endpoint = "proxy"
    /\ calls' = Append(calls,
           [NoCall EXCEPT !.method = req.method, !.url = req.url,
                          !.headers = PrepareHeaders(req.headers),
                          !.json = IF BodyTruthy(req.body) THEN req.body ELSE None])
    /\ pc' = "awaiting"
    /\ UNCHANGED <<env, endpoint, req, user, up, resp, sent>>

\* proxy.py lines 53-92: validate the domain, prepare the headers, issue
\* the request.  The HTTPException(403) raised at line 70 is raised inside
\* the try block and HTTPException is an Exception, so the handler at
\* lines 102-104 catches it and raises HTTPException(500) in its place.
proxy_request ==
    /\ pc = "handler"
    /\ endpoint = "proxy"
    /\ LET domain == netloc(req.url) IN
       IF ~is_allowed(domain)
       THEN /\ resp' = HTTPException(500,
                   <<"Proxy request failed: ", "403: Domain not allowed in proxy.">>)
            /\ pc' = "done"
            /\ calls' = calls
       ELSE /\ calls' = Append(calls,
                   [NoCall EXCEPT !.method = req.method, !.url = req.url,
                                  !.headers = PrepareHeaders(req.headers),
                                  !.json = IF BodyTruthy(req.body) THEN req.body ELSE None])
            /\ pc' = "awaiting"
            /\ resp' = resp
    /\ UNCHANGED <<env, endpoint, req, user, up, sent>>

\* proxy.py lines 94-104: the upstream answers, or the transport fails
proxy_request_return ==
    /\ pc = "awaiting"
    /\ endpoint = "proxy"
    /\ \E a \in Answers :
        /\ a.kind = "response" => a.json    \* the body is relayed as bytes, never parsed
        /\ up' = a
        /\ resp' =
            IF a.kind = "error"
            THEN HTTPException(500, <<"Proxy request failed: ", "transport error">>)
            ELSE IF Contains(IF a.ctype = None THEN <<>> ELSE Val(a.ctype), CT_JSON)
                 THEN Response(a.status, CT_JSON)
                 ELSE Response(a.status, IF a.ctype = None THEN CT_OCTET ELSE Val(a.ctype))
    /\ pc' = "done"
    /\ UNCHANGED <<env, endpoint, req, user, calls, sent>>

\* The response has been sent; the request-scoped state is discarded.
Deliver ==
    /\ pc = "done"
    /\ pc' = "idle"
    /\ endpoint' = "none"
    /\ req' = NoReq
    /\ user' = "none"
    /\ calls' = <<>>
    /\ up' = NoUp
    /\ resp' = NoResp
    /\ sent' = <<>>
    /\ UNCHANGED env


\* ------------------------------------------------------------ environment
SecretNames ==
    {"OPENAI_API_KEY", "GEMINI_API_KEY", "DEEPSEEK_API_KEY",
     "DATAFORSEO_LOGIN", "DATAFORSEO_PASSWORD",
     "SUPABASE_URL", "SUPABASE_SERVICE_KEY"}
EnvNames == SecretNames \cup {"OPENAI_BASE_URL"}

\* every secret set to a value of its own, OPENAI_BASE_URL left unset
FullEnv ==
    [n \in EnvNames |->
        CASE n = "OPENAI_API_KEY"       -> Some("sk-openai")
          [] n = "GEMINI_API_KEY"       -> Some("sk-gemini")
          [] n = "DEEPSEEK_API_KEY"     -> Some("sk-deepseek")
          [] n = "DATAFORSEO_LOGIN"     -> Some("dfs-login")
          [] n = "DATAFORSEO_PASSWORD"  -> Some("dfs-password")
          [] n = "SUPABASE_URL"         -> Some("https://project.supabase.co")
          [] n = "SUPABASE_SERVICE_KEY" -> Some("supabase-service-key")
          [] n = "OPENAI_BASE_URL"      -> None]

\* what an entry can be instead: unset or empty for a secret, a custom URL
\* for OPENAI_BASE_URL
Deviations(n) ==
    IF n = "OPENAI_BASE_URL" THEN {Some("https://llm.example/v1")} ELSE {None, Some("")}

\* the configurations that deviate from FullEnv in at most MaxUnset entries
EnvConfigs ==
    UNION { { [n \in EnvNames |-> IF n \in D THEN f[n] ELSE FullEnv[n]] :
                f \in { g \in [D -> {None, Some(""), Some("https://llm.example/v1")}] :
                          \A n \in D : g[n] \in Deviations(n) } } :
            D \in { T \in SUBSET EnvNames : Cardinality(T) <= MaxUnset } }

\* os.getenv(name) / os.getenv(name, default)
getenv(name) == env[name]
getenv_default(name, default) == IF env[name] = None THEN default ELSE Val(env[name])

\* ------------------------------------------------------------ auth.py
\* supabase.auth.get_user(token): the identity provider, a black box
TokenIsValid(token) == token = "good"

\* auth.py lines 10-20, the configuration get_supabase_client needs
SupabaseConfigured ==
    Truthy(getenv("SUPABASE_URL")) /\ Truthy(getenv("SUPABASE_SERVICE_KEY"))

\* auth.py lines 8 and 22-46, run by the framework before a handler that
\* declares Depends(get_current_user).  HTTPBearer rejects a request
\* without a bearer header (401 or 403, by framework version);
\* get_supabase_client raises RuntimeError outside the try block, which
\* reaches the framework as a 500; an invalid token is a 401.
get_current_user ==
    /\ pc = "auth"
    /\ IF req.token = None
       THEN /\ \E s \in {401, 403} : resp' = HTTPException(s, <<"Not authenticated">>)
            /\ pc' = "done"
            /\ user' = user
       ELSE IF ~SupabaseConfigured
       THEN /\ resp' = HTTPException(500, <<"Internal Server Error">>)
            /\ pc' = "done"
            /\ user' = user
       ELSE IF ~TokenIsValid(Val(req.token))
       THEN /\ resp' = HTTPException(401, <<"Could not validate credentials">>)
            /\ pc' = "done"
            /\ user' = user
       ELSE /\ user' = "ok"
            /\ pc' = "handler"
            /\ resp' = resp
    /\ UNCHANGED <<env, endpoint, req, calls, up, sent>>

\* ------------------------------------------------------------ llm.py
gemini == <<"g", "e", "m", "i", "n", "i">>
deepseek == <<"d", "e", "e", "p", "s", "e", "e", "k">>
gpt == <<"g", "p", "t">>

\* model ids: payload.get("model"); None when the payload has no "model"
ModelIds ==
    { gemini, deepseek, gpt,
      gemini \o <<"-">> \o deepseek \o <<"-", "h", "y", "b", "r", "i", "d">>,
      deepseek \o <<"-">> \o gemini,
      <<"x">> \o gemini \o <<"2">>,
      gpt \o <<"-">> \o deepseek,
      <<"g", "e", "m", "i", "n">>,
      <<"G", "e", "m", "i", "n", "i">>,
      <<>> }

LlmRequests ==
    { [NoReq EXCEPT !.token = tk, !.model = m, !.stream = s] :
        tk \in Tokens, m \in {None} \cup {Some(x) : x \in ModelIds}, s \in BOOLEAN }

OPENAI_DEFAULT_BASE_URL == "https://api.openai.com/v1"
GEMINI_BASE_URL == "https://generativelanguage.googleapis.com/v1beta/openai"
DEEPSEEK_BASE_URL == "https://api.deepseek.com"

\* ResolveKey with a provider's missing key replaced by the default key
\* (api_key = os.getenv("GEMINI_API_KEY") or api_key)
ResolveKeyWithFallback(model_id) ==
    LET default == getenv("OPENAI_API_KEY")
        own == IF Contains(model_id, gemini) THEN getenv("GEMINI_API_KEY")
               ELSE IF Contains(model_id, deepseek) THEN getenv("DEEPSEEK_API_KEY")
               ELSE default
    IN  IF Truthy(own) THEN own ELSE default

\* ResolveBaseUrl with the two provider tests in the other order
ResolveBaseUrlDeepseekFirst(model_id) ==
    IF Contains(model_id, deepseek) THEN DEEPSEEK_BASE_URL
    ELSE IF Contains(model_id, gemini) THEN GEMINI_BASE_URL
    ELSE getenv_default("OPENAI_BASE_URL", OPENAI_DEFAULT_BASE_URL)

\* llm.py lines 27-36: the provider's key and base URL for a model id
ResolveKey(model_id) ==
    IF Contains(model_id, gemini) THEN getenv("GEMINI_API_KEY")
    ELSE IF Contains(model_id, deepseek) THEN getenv("DEEPSEEK_API_KEY")
    ELSE getenv("OPENAI_API_KEY")

ResolveBaseUrl(model_id) ==
    IF Contains(model_id, gemini) THEN GEMINI_BASE_URL
    ELSE IF Contains(model_id, deepseek) THEN DEEPSEEK_BASE_URL
    ELSE getenv_default("OPENAI_BASE_URL", OPENAI_DEFAULT_BASE_URL)

\* llm.py lines 41-47: the outbound request of both the buffered and the
\* streamed path
LlmCall(model_id) ==
    [NoCall EXCEPT
        !.method = "POST",
        !.url = <<ResolveBaseUrl(model_id), "/chat/completions">>,
        !.headers = [n \in {"Authorization", "Content-Type"} |->
                        IF n = "Authorization"
                        THEN <<"Bearer ", Val(ResolveKey(model_id))>>
                        ELSE <<"application/json">>],
        !.json = Some(JObj(<<"payload">>))]

\* A request arrives on POST /openai-compatible of the llm router (llm.py
\* line 10).  main.py mounts the dataforseo, upload and proxy routers; the
\* llm router is taken as mounted the same way, under /api/llm.
LlmArrive ==
    /\ pc = "idle"
    /\ \E r \in LlmRequests : req' = r
    /\ endpoint' = "llm"
    /\ pc' = "auth"
    /\ UNCHANGED <<env, user, calls, up, resp, sent>>

\* llm.py lines 11-59 up to the outbound call.  A payload without "model"
\* makes `"gemini" in model_id` raise TypeError, which reaches the
\* framework as a 500.  With stream set the handler returns the
\* StreamingResponse and stream_upstream runs afterwards.
proxy_openai ==
    /\ pc = "handler"
    /\ endpoint = "llm"
    /\ IF req.model = None
       THEN /\ resp' = HTTPException(500, <<"Internal Server Error">>)
            /\ pc' = "done"
            /\ calls' = calls
       ELSE IF ~Truthy(ResolveKey(Val(req.model)))
       THEN /\ resp' = HTTPException(500,
                  <<"Server Configuration Error: Missing API Key for this model type">>)
            /\ pc' = "done"
            /\ calls' = calls
       ELSE IF req.stream
       THEN /\ resp' = [NoResp EXCEPT !.status = 200, !.body = "stream",
                                      !.media_type = Some(<<"text/event-stream">>)]
            /\ pc' = "stream_open"
            /\ calls' = calls
       ELSE /\ calls' = Append(calls, LlmCall(Val(req.model)))
            /\ pc' = "awaiting"
            /\ resp' = resp
    /\ UNCHANGED <<env, endpoint, req, user, up, sent>>

\* llm.py lines 57-65: raise_for_status() turns a non-2xx answer into an
\* HTTPException with the upstream's status; a transport failure or a body
\* that is not JSON is a 500.
proxy_openai_return ==
    /\ pc = "awaiting"
    /\ endpoint = "llm"
    /\ \E a \in Answers :
        /\ a.ctype \in {None, Some(CT_JSON)}
        /\ up' = a
        /\ resp' =
            IF a.kind = "error" THEN HTTPException(500, <<"transport error">>)
            ELSE IF a.status \notin 200..299
                 THEN HTTPException(a.status, <<"Upstream Provider Error: ", "upstream text">>)
            ELSE IF ~a.json THEN HTTPException(500, <<"JSONDecodeError">>)
            ELSE [NoResp EXCEPT !.status = 200, !.body = "upstream json",
                                !.media_type = Some(CT_JSON)]
    /\ pc' = "done"
    /\ UNCHANGED <<env, endpoint, req, user, calls, sent>>

\* ------------------------------------------------------------ stream_upstream
ChunkValues == {"b1", "b2"}

RECURSIVE SeqsUpTo(_, _)
SeqsUpTo(S, n) ==
    IF n = 0 THEN {<<>>}
    ELSE LET shorter == SeqsUpTo(S, n - 1)
         IN  shorter \cup {Append(q, x) : q \in {r \in shorter : Len(r) = n - 1}, x \in S}

\* What the upstream does with the streamed request: the connection fails,
\* or it answers with a status and a body of chunks that ends with EOF or
\* with a transport failure after the last chunk listed.
StreamAnswers ==
    { [NoUp EXCEPT !.kind = "error"] }
    \cup { [NoUp EXCEPT !.kind = "response", !.status = s, !.chunks = c, !.end = e] :
             s \in Statuses, c \in SeqsUpTo(ChunkValues, MaxChunks), e \in {"eof", "fail"} }

\* yield chunk
Bytes(chunk) == [kind |-> "bytes", data |-> <<chunk>>]
\* yield f"data: {json.dumps({'error': error_text.decode()})}\n\n"
ErrorEvent(body) == [kind |-> "sse data: {error}", data |-> body]

\* llm.py lines 67-73: open the stream.  A status other than 200 is
\* answered with one error event made of the whole body; an exception
\* (connection failure, failure while reading the error body) leaves the
\* generator and ends the caller's stream.
stream_upstream_open ==
    /\ pc = "stream_open"
    /\ calls' = Append(calls, LlmCall(Val(req.model)))
    /\ \E a \in StreamAnswers :
        /\ up' = a
        /\ IF a.kind = "error" THEN pc' = "done" /\ sent' = sent
           ELSE IF a.status # 200
           THEN /\ pc' = "done"
                /\ sent' = IF a.end = "eof" THEN Append(sent, ErrorEvent(a.chunks)) ELSE sent
           ELSE pc' = "relaying" /\ sent' = sent
    /\ UNCHANGED <<env, endpoint, req, user, resp>>

\* llm.py lines 75-76: one iteration of the loop over aiter_bytes()
stream_upstream_chunk ==
    /\ pc = "relaying"
    /\ up.pos < Len(up.chunks)
    /\ up' = [up EXCEPT !.pos = @ + 1]
    /\ sent' = Append(sent, Bytes(up.chunks[up.pos + 1]))
    /\ UNCHANGED <<env, endpoint, req, pc, user, calls, resp>>

\* stream_upstream_end with a closing event appended to every stream
stream_upstream_end_with_done_event ==
    /\ pc = "relaying"
    /\ up.pos = Len(up.chunks)
    /\ pc' = "done"
    /\ sent' = Append(sent, [kind |-> "sse data: [DONE]", data |-> <<>>])
    /\ UNCHANGED <<env, endpoint, req, user, calls, up, resp>>

\* llm.py lines 75-76: aiter_bytes() is exhausted (EOF) or raises (the
\* transport failed); either way the generator is left and the caller's
\* stream ends.
stream_upstream_end ==
    /\ pc = "relaying"
    /\ up.pos = Len(up.chunks)
    /\ pc' = "done"
    /\ UNCHANGED <<env, endpoint, req, user, calls, up, resp, sent>>

\* ------------------------------------------------------------ dataforseo.py
DFS_BASE_URL == "https://api.dataforseo.com/v3"

EndpointPaths ==
    { <<"s", "e", "r", "p", "/", "l", "i", "v", "e">>, <<"x">> }

DfsRequests ==
    { [NoReq EXCEPT !.token = tk, !.path = e] : tk \in Tokens, e \in EndpointPaths }

\* A request arrives on POST /api/dataforseo/{endpoint:path}
DfsArrive ==
    /\ pc = "idle"
    /\ \E r \in DfsRequests : req' = r
    /\ endpoint' = "dataforseo"
    /\ pc' = "auth"
    /\ UNCHANGED <<env, user, calls, up, resp, sent>>

\* dataforseo.py lines 24-44 up to the outbound call
proxy_dataforseo ==
    /\ pc = "handler"
    /\ endpoint = "dataforseo"
    /\ LET dfs_login == getenv("DATAFORSEO_LOGIN")
           dfs_password == getenv("DATAFORSEO_PASSWORD")
       IN  IF ~Truthy(dfs_login) \/ ~Truthy(dfs_password)
           THEN /\ resp' = HTTPException(500,
                      <<"Server misconfiguration: Missing DataForSEO credentials">>)
                /\ pc' = "done"
                /\ calls' = calls
           ELSE /\ calls' = Append(calls,
                      [NoCall EXCEPT !.method = "POST",
                                     !.url = <<DFS_BASE_URL, "/", req.path>>,
                                     !.json = Some(JObj(<<"payload">>)),
                                     !.auth = Some(<<Val(dfs_login), Val(dfs_password)>>)])
                /\ pc' = "awaiting"
                /\ resp' = resp
    /\ UNCHANGED <<env, endpoint, req, user, up, sent>>

\* dataforseo.py lines 46-55.  The handler returns response.json() and
\* never calls raise_for_status(), so the framework answers 200 whatever
\* the upstream's status was and the HTTPStatusError branch is never
\* taken; a body that is not JSON raises JSONDecodeError, which neither
\* except clause catches.
proxy_dataforseo_return ==
    /\ pc = "awaiting"
    /\ endpoint = "dataforseo"
    /\ \E a \in Answers :
        /\ a.ctype \in {None, Some(CT_JSON)}
        /\ up' = a
        /\ resp' =
            IF a.kind = "error" THEN HTTPException(500, <<"DataForSEO connection failed">>)
            ELSE IF ~a.json THEN HTTPException(500, <<"Internal Server Error">>)
            ELSE [NoResp EXCEPT !.status = 200, !.body = "upstream json",
                                !.media_type = Some(CT_JSON)]
    /\ pc' = "done"
    /\ UNCHANGED <<env, endpoint, req, user, calls, sent>>

\* ------------------------------------------------------------ specifications
InitWith(e) ==
    /\ env = e
    /\ endpoint = "none"
    /\ req = NoReq
    /\ pc = "idle"
    /\ user = "none"
    /\ calls = <<>>
    /\ up = NoUp
    /\ resp = NoResp
    /\ sent = <<>>

\* the gateway with every secret configured
Init == InitWith(FullEnv)

Next ==
    \/ ProxyArrive
    \/ proxy_request
    \/ proxy_request_return
    \/ LlmArrive
    \/ DfsArrive
    \/ get_current_user
    \/ proxy_openai
    \/ proxy_openai_return
    \/ stream_upstream_open
    \/ stream_upstream_chunk
    \/ stream_upstream_end
    \/ proxy_dataforseo
    \/ proxy_dataforseo_return
    \/ Deliver

Spec == Init /\ [][Next]_vars

\* the credential-injecting proxies under every configuration
InitEnv == \E e \in EnvConfigs : InitWith(e)

NextEnv ==
    \/ LlmArrive
    \/ DfsArrive
    \/ get_current_user
    \/ proxy_openai
    \/ proxy_openai_return
    \/ stream_upstream_open
    \/ stream_upstream_chunk
    \/ stream_upstream_end
    \/ proxy_dataforseo
    \/ proxy_dataforseo_return
    \/ Deliver

SpecEnv == InitEnv /\ [][NextEnv]_vars


\* ============================================================ claims

\* the generic proxy has taken its allowlist decision on the request in flight
ProxyDecided == endpoint = "proxy" /\ pc \in {"awaiting", "done"}
\* ... and the decision was to deny
ProxyDenied == endpoint = "proxy" /\ pc # "idle" /\ ~is_allowed(netloc(req.url))

\* ------------------------------------------------------------ C1
\* C1: a generic-proxy request whose target host the allowlist check denies
\* never issues an outbound HTTP request: from its arrival until its
\* response is delivered the list of outbound calls stays empty.
C1_DeniedIssuesNoCall == ProxyDenied => calls = <<>>

\* a denied request that has been answered, with no outbound call issued
C1_Witness ==
    /\ ProxyDenied
    /\ pc = "done"
    /\ resp.status # 0
    /\ calls = <<>>

\* ------------------------------------------------------------ C2
\* C2: on all three proxy endpoints an outbound request is issued only
\* after the auth collaborator has validated the caller's bearer token.
C2_CallOnlyAfterAuth == calls # <<>> => user = "ok"

\* ------------------------------------------------------------ C3
Lower(c) ==
    CASE c = "A" -> "a" [] c = "B" -> "b" [] c = "C" -> "c" [] c = "D" -> "d"
      [] c = "E" -> "e" [] c = "F" -> "f" [] c = "G" -> "g" [] c = "H" -> "h"
      [] c = "I" -> "i" [] c = "J" -> "j" [] c = "K" -> "k" [] c = "L" -> "l"
      [] c = "M" -> "m" [] c = "N" -> "n" [] c = "O" -> "o" [] c = "P" -> "p"
      [] c = "Q" -> "q" [] c = "R" -> "r" [] c = "S" -> "s" [] c = "T" -> "t"
      [] c = "U" -> "u" [] c = "V" -> "v" [] c = "W" -> "w" [] c = "X" -> "x"
      [] c = "Y" -> "y" [] c = "Z" -> "z" [] OTHER -> c

\* the host of a URL as the claim takes it: the authority without its
\* port, lower-cased
HostOf(url) ==
    LET authority == netloc(url)
        colon == Find(authority, {":"})
        hostpart == IF colon = 0 THEN authority ELSE SubSeq(authority, 1, colon - 1)
    IN  [i \in 1..Len(hostpart) |-> Lower(hostpart[i])]

HasUserinfo(url) == Find(netloc(url), {"@"}) # 0

\* the admit decision the claim states
ClaimedAdmit(url) ==
    /\ ~HasUserinfo(url)
    /\ HostOf(url) # <<>>
    /\ \E k \in DOMAIN ALLOWED_DOMAINS :
          \/ HostOf(url) = ALLOWED_DOMAINS[k]
          \/ EndsWith(HostOf(url), <<".">> \o ALLOWED_DOMAINS[k])

\* C3: the generic proxy admits a target URL iff its host (lower-cased,
\* port stripped, no credentials) equals an ALLOWED_DOMAINS entry or ends
\* with "." + entry; URLs with userinfo or an empty host are denied.
C3_AdmitIffHostAllowed == ProxyDecided => (calls # <<>> <=> ClaimedAdmit(req.url))

\* ------------------------------------------------------------ C4
BytesOf(chunks) == [i \in 1..Len(chunks) |-> [kind |-> "bytes", data |-> <<chunks[i]>>]]

Streaming == endpoint = "llm" /\ req.stream /\ up.kind = "response"

\* C4: in the streaming relay, an upstream that answers 200 and yields
\* b1..bn then EOF gives the caller exactly b1..bn, unmodified and in
\* arrival order (at every moment a prefix of them), with no synthetic
\* event; an upstream whose initial status is not 200 gives the caller
\* exactly one synthetic error event wrapping the body text and no chunk.
C4_StreamRelay ==
    /\ (Streaming /\ pc = "relaying") => sent = BytesOf(SubSeq(up.chunks, 1, up.pos))
    /\ (Streaming /\ pc = "done" /\ up.end = "eof" /\ up.status = 200)
          => sent = BytesOf(up.chunks)
    /\ (Streaming /\ pc = "done" /\ up.end = "eof" /\ up.status # 200)
          => sent = << [kind |-> "sse data: {error}", data |-> up.chunks] >>

\* a 200 stream of two different chunks relayed to its end
C4_Witness ==
    /\ Streaming
    /\ pc = "done"
    /\ up.status = 200
    /\ up.end = "eof"
    /\ up.chunks = <<"b1", "b2">>
    /\ Len(sent) = 2

\* ------------------------------------------------------------ C5
LlmCallIssued == endpoint = "llm" /\ calls # <<>>
CalledBaseUrl == calls[1].url[1]
CalledBearer == calls[1].headers["Authorization"][2]

\* C5: LLM upstream resolution is ordered first-match: a model id that
\* contains "gemini" goes to the Gemini endpoint with GEMINI_API_KEY; else
\* one that contains "deepseek" to the DeepSeek endpoint with
\* DEEPSEEK_API_KEY; else to the default OpenAI-compatible endpoint with
\* OPENAI_API_KEY.
C5_FirstMatchResolution ==
    LlmCallIssued =>
        LET m == Val(req.model)
            hasGemini == \E i \in 1..(Len(m) - 5) : SubSeq(m, i, i + 5) = gemini
            hasDeepseek == \E i \in 1..(Len(m) - 7) : SubSeq(m, i, i + 7) = deepseek
        IN  /\ hasGemini =>
                  /\ CalledBaseUrl = "https://generativelanguage.googleapis.com/v1beta/openai"
                  /\ CalledBearer = Val(env["GEMINI_API_KEY"])
            /\ (~hasGemini /\ hasDeepseek) =>
                  /\ CalledBaseUrl = "https://api.deepseek.com"
                  /\ CalledBearer = Val(env["DEEPSEEK_API_KEY"])
            /\ (~hasGemini /\ ~hasDeepseek) =>
                  /\ CalledBaseUrl = IF env["OPENAI_BASE_URL"] = None
                                     THEN "https://api.openai.com/v1"
                                     ELSE Val(env["OPENAI_BASE_URL"])
                  /\ CalledBearer = Val(env["OPENAI_API_KEY"])

\* "gemini-deepseek-hybrid" has been sent to the Gemini endpoint
C5_Witness ==
    /\ LlmCallIssued
    /\ req.model = Some(gemini \o <<"-">> \o deepseek \o <<"-", "h", "y", "b", "r", "i", "d">>)
    /\ CalledBaseUrl = GEMINI_BASE_URL
    /\ CalledBearer = "sk-gemini"

\* ------------------------------------------------------------ C6
\* the secret the request in flight needs is unset or empty
RequiredSecretAbsent ==
    \/ /\ endpoint = "llm"
       /\ req.model # None
       /\ LET m == Val(req.model)
              name == IF Contains(m, gemini) THEN "GEMINI_API_KEY"
                      ELSE IF Contains(m, deepseek) THEN "DEEPSEEK_API_KEY"
                      ELSE "OPENAI_API_KEY"
          IN  env[name] \in {None, Some("")}
    \/ /\ endpoint = "dataforseo"
       /\ \/ env["DATAFORSEO_LOGIN"] \in {None, Some("")}
          \/ env["DATAFORSEO_PASSWORD"] \in {None, Some("")}

\* C6: when the secret the resolved upstream needs is absent from the
\* configuration (the selected provider's key for the LLM proxy, either
\* credential for the search-data proxy), no outbound call is ever issued
\* (so no other provider's key stands in for it) and the handler, once the
\* caller is authenticated and it has run, answers 500 with a
\* configuration error.
C6_MissingSecretIsConfigurationError ==
    RequiredSecretAbsent =>
        /\ calls = <<>>
        /\ (user = "ok" /\ pc = "done") =>
              /\ resp.status = 500
              /\ resp.detail \in
                    { <<"Server Configuration Error: Missing API Key for this model type">>,
                      <<"Server misconfiguration: Missing DataForSEO credentials">> }

\* a Gemini request answered 500 while GEMINI_API_KEY is missing and
\* OPENAI_API_KEY is set
C6_Witness ==
    /\ endpoint = "llm"
    /\ RequiredSecretAbsent
    /\ Contains(Val(req.model), gemini)
    /\ env["OPENAI_API_KEY"] = Some("sk-openai")
    /\ user = "ok"
    /\ pc = "done"
    /\ resp.status = 500
    /\ calls = <<>>

\* ------------------------------------------------------------ C7
\* C7: a generic-proxy request denied by the allowlist is answered with an
\* authorization status (401/403), not with a 500.
C7_DenialKeepsItsStatus == (ProxyDenied /\ pc = "done") => resp.status \in {401, 403}

\* ------------------------------------------------------------ C8
B64Alphabet ==
    <<"A", "B", "C", "D", "E", "F", "G", "H", "I", "J", "K", "L", "M",
      "N", "O", "P", "Q", "R", "S", "T", "U", "V", "W", "X", "Y", "Z",
      "a", "b", "c", "d", "e", "f", "g", "h", "i", "j", "k", "l", "m",
      "n", "o", "p", "q", "r", "s", "t", "u", "v", "w", "x", "y", "z",
      "0", "1", "2", "3", "4", "5", "6", "7", "8", "9", "+", "/">>

B64Index(c) ==
    IF c = "=" THEN 0 ELSE (CHOOSE i \in 1..64 : B64Alphabet[i] = c) - 1

\* base64.b64decode of a padded string: each group of four characters is
\* three bytes, less one per "="
RECURSIVE B64Decode(_)
B64Decode(s) ==
    IF Len(s) < 4 THEN <<>>
    ELSE LET n == B64Index(s[1]) * 262144 + B64Index(s[2]) * 4096
                  + B64Index(s[3]) * 64 + B64Index(s[4])
             three == <<n \div 65536, (n \div 256) % 256, n % 256>>
             keep == IF s[3] = "=" THEN 1 ELSE IF s[4] = "=" THEN 2 ELSE 3
         IN  SubSeq(three, 1, keep) \o B64Decode(SubSeq(s, 5, Len(s)))

LowerCaseLetters ==
    <<"a", "b", "c", "d", "e", "f", "g", "h", "i", "j", "k", "l", "m",
      "n", "o", "p", "q", "r", "s", "t", "u", "v", "w", "x", "y", "z">>
\* the ASCII code of a lower-case letter
Ord(c) == 96 + (CHOOSE i \in 1..26 : LowerCaseLetters[i] = c)

\* the body bytes of an outbound call: none without json=, else the JSON
\* text of the value (a string in double quotes)
SentContent(call) ==
    IF call.json = None THEN <<>>
    ELSE LET s == Val(call.json).v
         IN  <<34>> \o [i \in 1..Len(s) |-> Ord(s[i])] \o <<34>>

\* C8: when the request's encoding is base64, the body sent upstream is
\* exactly the bytes obtained by base64-decoding the payload field.
C8_Base64PayloadForwarded ==
    (endpoint = "proxy" /\ calls # <<>> /\ req.encoding = Some("base64") /\ req.payload # None)
        => SentContent(calls[1]) = B64Decode(Val(req.payload))

\* ------------------------------------------------------------ C9
\* the case-folded name of a header
Fold(name) ==
    CASE name \in {"host", "Host", "HOST"} -> "host"
      [] name \in {"User-Agent", "user-agent", "USER-AGENT"} -> "user-agent"
      [] name = "Accept" -> "accept"
      [] OTHER -> name

InboundHeaders == IF req.headers = None THEN <<>> ELSE Val(req.headers)

\* C9: the outbound headers of the generic proxy hold no header whose
\* case-folded name is "host", hold exactly one User-Agent header under
\* case-insensitive comparison (the caller's if one was supplied in any
\* casing, else the default), and carry every other header unchanged.
C9_HeadersSanitized ==
    (endpoint = "proxy" /\ calls # <<>>) =>
        LET out == calls[1].headers
            inb == InboundHeaders
            uaOut == {n \in DOMAIN out : Fold(n) = "user-agent"}
            uaIn == {n \in DOMAIN inb : Fold(n) = "user-agent"}
        IN  /\ \A n \in DOMAIN out : Fold(n) # "host"
            /\ Cardinality(uaOut) = 1
            /\ IF uaIn = {} THEN \A n \in uaOut : out[n] = "SEO-Copilot-Backend/1.0"
               ELSE uaOut \subseteq uaIn /\ \A n \in uaOut : out[n] = inb[n]
            /\ \A n \in DOMAIN inb :
                  Fold(n) \notin {"host", "user-agent"} => (n \in DOMAIN out /\ out[n] = inb[n])
            /\ \A n \in DOMAIN out : Fold(n) = "user-agent" \/ n \in DOMAIN inb

\* ------------------------------------------------------------ C10
\* C10: in the search-data proxy the caller sees the upstream's status: a
\* non-2xx upstream status is the status of the caller's response, and a
\* transport failure is a 500.
C10_UpstreamStatusSurfaced ==
    (endpoint = "dataforseo" /\ pc = "done" /\ calls # <<>>) =>
        /\ (up.kind = "response" /\ up.status \notin 200..299) => resp.status = up.status
        /\ up.kind = "error" => resp.status = 500

\* ------------------------------------------------------------ C11
\* the upstream answered 200, yielded its chunks and then failed, and the
\* relay has ended
FailedMidStream ==
    Streaming /\ pc = "done" /\ up.status = 200 /\ up.end = "fail"

\* C11: when the upstream fails after streaming has begun (status 200, k
\* chunks already forwarded), the caller receives those k chunks followed
\* by exactly one synthetic terminal event carrying an error payload and
\* nothing more, and the relay has connected to the upstream only once.
C11_MidStreamFailureEndsWithErrorEvent ==
    FailedMidStream =>
        /\ Len(sent) = Len(up.chunks) + 1
        /\ SubSeq(sent, 1, Len(up.chunks)) = BytesOf(up.chunks)
        /\ sent[Len(sent)].kind = "sse data: {error}"
        /\ Len(calls) = 1

====
